---- MODULE Spec2Model ----
(***************************************************************************)
(* Crawler debug server (fetchHtml and its in-memory HTML cache, the       *)
(* /api/parse-list, /api/parse-detail, /api/clear-cache and                *)
(* /api/cache-stats handlers) and the yngogo CSR parser with its           *)
(* extraction functions getUniqId and extractNttSeq.                       *)
(*                                                                         *)
(* One logical HTTP request is one slot of `req`; it is suspended at each  *)
(* `await` of the source (pc = "fetch", "text", "post", "postText") and    *)
(* everything between two awaits is one atomic step of the event loop.     *)
(* Time is Date.now() in milliseconds.                                     *)
(***************************************************************************)
EXTENDS Integers, Sequences, FiniteSets, TLC

\* ------------------------------------------------------------------ bounds
MaxReqs == 2          \* logical HTTP requests served in one run
MaxTicks == 2         \* advances of the clock in one run

\* --------------------------------------------------------- program constants
CACHE_TTL == 5 * 60 * 1000

\* the k-th advance of the clock (ms): CACHE_TTL - 1, then 1, and so on, so
\* that the ages 1, CACHE_TTL - 1 and CACHE_TTL are all reached
TickStep(k) == IF k % 2 = 1 THEN CACHE_TTL - 1 ELSE 1

Reqs == 1..MaxReqs

NoVal == "<none>"     \* undefined / no value (strings)
NoTime == -1          \* no timestamp

\* URLs requested and page bodies the upstream may answer with
Urls == {"u1", "u2"}
Bodies == {"A", "B"}

\* HTTP statuses an upstream answers with; response.ok is 200..299
Statuses == {200, 500}
\* mutant of ResponseOk: the status is not looked at
ResponseOk_Unchecked(status) == TRUE

ResponseOk(status) == status >= 200 /\ status <= 299
StatusText(status) ==
  CASE status = 200 -> "OK"
    [] status = 500 -> "Internal Server Error"
    [] OTHER -> ""

\* -------------------------------------------------------------- JS Map
\* htmlCache is a Map: a list of entries in insertion order, keyed by url.
MapIndex(m, k) ==
  IF \E i \in 1..Len(m) : m[i].url = k
  THEN CHOOSE i \in 1..Len(m) : m[i].url = k /\ \A j \in 1..(i - 1) : m[j].url # k
  ELSE 0

MapHas(m, k) == MapIndex(m, k) # 0

MapGet(m, k) == m[MapIndex(m, k)]

\* mutant of MapSet: every set appends an entry
MapSet_Append(m, k, html, timestamp) ==
  Append(m, [url |-> k, html |-> html, timestamp |-> timestamp])

MapSet(m, k, html, timestamp) ==
  LET e == [url |-> k, html |-> html, timestamp |-> timestamp]
  IN IF MapHas(m, k) THEN [m EXCEPT ![MapIndex(m, k)] = e] ELSE Append(m, e)

\* mutant of MapClear: one entry is deleted, not all
MapClear_DropFirst(m) == IF Len(m) = 0 THEN m ELSE Tail(m)

MapClear(m) == <<>>

MapSize(m) == Len(m)

MapKeys(m) == [i \in 1..Len(m) |-> m[i].url]

VARIABLES
  htmlCache,   \* the Map of part_000:18
  now,         \* Date.now()
  req,         \* the logical requests, by arrival number
  ticks,       \* history: clock advances so far
  statsResp,   \* the response of the handler that ran last, if /api/cache-stats
  justCleared, \* history: the handler that ran last was /api/clear-cache
  fnArg,       \* the argument of a call of an extraction function, if any
  fnRet        \* what that call returned

vars == <<htmlCache, now, req, ticks, statsResp, justCleared, fnArg, fnRet>>

\* ------------------------------------------------------------ strings
\* A string is a sequence of one-character strings.
StartsWithAt(s, p, i) ==
  /\ i + Len(p) - 1 <= Len(s)
  /\ \A k \in 1..Len(p) : s[i + k - 1] = p[k]

\* the least index >= i at which c(s[j]) holds, or 0
FirstFrom(s, i, c(_)) ==
  IF \E j \in i..Len(s) : c(s[j])
  THEN CHOOSE j \in i..Len(s) : c(s[j]) /\ \A k \in i..(j - 1) : ~c(s[k])
  ELSE 0

IsQuote(ch) == ch = "'"

FnViewOpen == <<"f", "n", "V", "i", "e", "w", "(", "'">>

\* the greatest index at which c(s[j]) holds, or 0
LastOf(s, c(_)) ==
  IF \E j \in 1..Len(s) : c(s[j])
  THEN CHOOSE j \in 1..Len(s) : c(s[j]) /\ \A k \in (j + 1)..Len(s) : ~c(s[k])
  ELSE 0

\* mutant of MatchFnView: the group runs to the last quote (.* for [^']*)
MatchFnView_Greedy(s) ==
  LET starts == {i \in 1..Len(s) :
                   /\ StartsWithAt(s, FnViewOpen, i)
                   /\ LastOf(s, IsQuote) >= i + Len(FnViewOpen)}
  IN IF starts = {} THEN <<>>
     ELSE LET i == CHOOSE x \in starts : \A y \in starts : x <= y
          IN SubSeq(s, i + Len(FnViewOpen), LastOf(s, IsQuote) - 1)

\* s.match(/fnView\('([^']*)'/)?.[1] ?? '' : the leftmost position where
\* fnView(' is followed by a run of non-quote characters and a quote; the
\* run is the captured group.
MatchFnView(s) ==
  LET starts == {i \in 1..Len(s) :
                   /\ StartsWithAt(s, FnViewOpen, i)
                   /\ FirstFrom(s, i + Len(FnViewOpen), IsQuote) # 0}
  IN IF starts = {} THEN <<>>
     ELSE LET i == CHOOSE x \in starts : \A y \in starts : x <= y
              b == i + Len(FnViewOpen)
              e == FirstFrom(s, b, IsQuote)
          IN SubSeq(s, b, e - 1)

\* An element selection (Cheerio): the matched elements in document order,
\* each [onclick |-> string or NoAttr, text |-> string].  attr() reads the
\* first element; an empty selection has no attribute.
NoAttr == <<"<", "n", "o", "a", "t", "t", "r", ">">>

Attr(sel) == IF Len(sel) = 0 THEN NoAttr ELSE sel[1].onclick

getUniqId(element) ==
  LET a == Attr(element)
  IN MatchFnView(IF a = NoAttr THEN <<>> ELSE a)

\* no call of an extraction function; no value returned yet
NoCall == [fn |-> ""]
NoRet == <<"<none>">>

IsDigit(ch) == ch \in {"0", "1", "2", "3", "4", "5", "6", "7", "8", "9"}
NotDigit(ch) == ~IsDigit(ch)

NttSeqName == <<"n", "t", "t", "S", "e", "q">>

\* the digits from position i up to the first non-digit (\d+, greedy)
DigitsAt(s, i) ==
  LET e == FirstFrom(s, i, NotDigit)
  IN IF e = 0 THEN SubSeq(s, i, Len(s)) ELSE SubSeq(s, i, e - 1)

\* s.match(/nttSeq<sep><quote>?(\d+)/)?.[1] ?? '' with the separators and
\* quotes of the two character classes: the leftmost position where nttSeq
\* is followed by a separator, at most one quote, and a digit; the run of
\* digits is the captured group.
MatchNttSeq(s, seps, quotes) ==
  LET valueAt(i) ==
        IF StartsWithAt(s, NttSeqName, i)
           /\ i + Len(NttSeqName) <= Len(s)
           /\ s[i + Len(NttSeqName)] \in seps
        THEN LET v == i + Len(NttSeqName) + 1
             IN IF v <= Len(s) /\ IsDigit(s[v]) THEN v
                ELSE IF v + 1 <= Len(s) /\ s[v] \in quotes /\ IsDigit(s[v + 1])
                THEN v + 1
                ELSE 0
        ELSE 0
      starts == {i \in 1..Len(s) : valueAt(i) # 0}
  IN IF starts = {} THEN <<>>
     ELSE DigitsAt(s, valueAt(CHOOSE x \in starts : \A y \in starts : x <= y))

\* mutant of extractNttSeq: the double quote is not accepted
extractNttSeq_NoDoubleQuote(html) == MatchNttSeq(html, {"=", ":"}, {"'"})

\* /nttSeq[=:]['"]?(\d+)/
extractNttSeq(html) == MatchNttSeq(html, {"=", ":"}, {"'", "\""})

\* ------------------------------------------------------- yngogo.parser
BASE_URL ==
  <<"h", "t", "t", "p", ":", "/", "/", "w", "w", "w", ".", "y", "n", "g", "o", "g", "o", ".", "o", "r", ".", "k", "r">>

IsSpace(ch) == ch = " "
NotSpace(ch) == ch # " "

\* String.prototype.trim over the space character
Trim(s) ==
  LET b == FirstFrom(s, 1, NotSpace)
  IN IF b = 0 THEN <<>>
     ELSE LET e == CHOOSE j \in b..Len(s) :
                     NotSpace(s[j]) /\ \A k \in (j + 1)..Len(s) : IsSpace(s[k])
          IN SubSeq(s, b, e)

\* ./utils getDate: the date value a date text denotes (external utility)
getDate(text) == [dateOf |-> text]

\* ./utils cleanUrl: canonicalization drops the tracking parameters from
\* the query of a URL (external utility).  The query is what follows the
\* first '?', its parameters are separated by '&', and the key of a
\* parameter is what precedes its first '='.
TrackingParams ==
  { <<"u", "t", "m", "_", "s", "o", "u", "r", "c", "e">>,
    <<"u", "t", "m", "_", "m", "e", "d", "i", "u", "m">>,
    <<"u", "t", "m", "_", "c", "a", "m", "p", "a", "i", "g", "n">>,
    <<"f", "b", "c", "l", "i", "d">> }

IsQMark(ch) == ch = "?"
IsAmp(ch) == ch = "&"
IsEq(ch) == ch = "="

RECURSIVE SplitAmp(_)
SplitAmp(s) ==
  LET i == FirstFrom(s, 1, IsAmp)
  IN IF i = 0 THEN <<s>>
     ELSE <<SubSeq(s, 1, i - 1)>> \o SplitAmp(SubSeq(s, i + 1, Len(s)))

RECURSIVE JoinAmp(_)
JoinAmp(ps) ==
  IF Len(ps) = 0 THEN <<>>
  ELSE IF Len(ps) = 1 THEN ps[1]
  ELSE ps[1] \o <<"&">> \o JoinAmp(Tail(ps))

KeyOf(p) ==
  LET i == FirstFrom(p, 1, IsEq)
  IN IF i = 0 THEN p ELSE SubSeq(p, 1, i - 1)

cleanUrl(url) ==
  LET q == FirstFrom(url, 1, IsQMark)
  IN IF q = 0 THEN url
     ELSE LET kept == SelectSeq(SplitAmp(SubSeq(url, q + 1, Len(url))),
                                LAMBDA p : KeyOf(p) \notin TrackingParams)
          IN IF Len(kept) = 0 THEN SubSeq(url, 1, q - 1)
             ELSE SubSeq(url, 1, q) \o JoinAmp(kept)

\* the template literal of line 89:
\* `${BASE_URL}/subList/${menuSeq}?pmode=detail&nttSeq=${uniqId}&bbsSeq=${bbsSeq}&sitecntntsSeq=${sitecntntsSeq}`
DetailUrlTemplate(menuSeq, uniqId, bbsSeq, sitecntntsSeq) ==
  BASE_URL
  \o <<"/", "s", "u", "b", "L", "i", "s", "t", "/">> \o menuSeq
  \o <<"?", "p", "m", "o", "d", "e", "=", "d", "e", "t", "a", "i", "l", "&", "n", "t", "t", "S", "e", "q", "=">> \o uniqId
  \o <<"&", "b", "b", "s", "S", "e", "q", "=">> \o bbsSeq
  \o <<"&", "s", "i", "t", "e", "c", "n", "t", "n", "t", "s", "S", "e", "q", "=">> \o sitecntntsSeq

\* Cheerio: columns.eq(n) is the selection of the n-th (0-based) element,
\* empty when there is none; find('a') the anchors below it; text() the
\* text of the selection ('' when empty)
Eq(columns, n) == IF n + 1 <= Len(columns) THEN <<columns[n + 1]>> ELSE <<>>

FindA(sel) == IF Len(sel) = 0 THEN <<>> ELSE sel[1].a

RECURSIVE TextOf(_)
TextOf(sel) == IF Len(sel) = 0 THEN <<>> ELSE sel[1].text \o TextOf(Tail(sel))

\* mutant of ListRowCallback: a row is skipped when its second td holds
\* no link, not when it has no td
ListRowCallback_SkipsOnLink(posts, element, menuSeq, bbsSeq, sitecntntsSeq) ==
  LET columns == element.cols
      titleElement == FindA(Eq(columns, 1))
  IN IF Len(titleElement) = 0 THEN posts
     ELSE LET uniqId == getUniqId(titleElement)
              detailUrl == DetailUrlTemplate(menuSeq, uniqId, bbsSeq, sitecntntsSeq)
          IN Append(posts, [uniqId |-> uniqId,
                            title |-> Trim(TextOf(titleElement)),
                            date |-> getDate(Trim(TextOf(Eq(columns, 3)))),
                            detailUrl |-> cleanUrl(detailUrl),
                            dateType |-> "REGISTERED"])

\* mutant of ListRowCallback: the detail URL is stored as composed
ListRowCallback_RawUrl(posts, element, menuSeq, bbsSeq, sitecntntsSeq) ==
  LET columns == element.cols
  IN IF Len(columns) = 0 THEN posts
     ELSE LET titleElement == FindA(Eq(columns, 1))
              uniqId == getUniqId(titleElement)
              detailUrl == DetailUrlTemplate(menuSeq, uniqId, bbsSeq, sitecntntsSeq)
          IN Append(posts, [uniqId |-> uniqId,
                            title |-> Trim(TextOf(titleElement)),
                            date |-> getDate(Trim(TextOf(Eq(columns, 3)))),
                            detailUrl |-> detailUrl,
                            dateType |-> "REGISTERED"])

\* the callback of $('.basic-table01 tr').each, part of parseYngogoList:
\* element is a row, element.cols the td elements below it
ListRowCallback(posts, element, menuSeq, bbsSeq, sitecntntsSeq) ==
  LET columns == element.cols
  IN IF Len(columns) = 0 THEN posts
     ELSE LET titleElement == FindA(Eq(columns, 1))
              uniqId == getUniqId(titleElement)
              detailUrl == DetailUrlTemplate(menuSeq, uniqId, bbsSeq, sitecntntsSeq)
              title == Trim(TextOf(titleElement))
              date == getDate(Trim(TextOf(Eq(columns, 3))))
          IN Append(posts, [uniqId |-> uniqId,
                            title |-> title,
                            date |-> date,
                            detailUrl |-> cleanUrl(detailUrl),
                            dateType |-> "REGISTERED"])

RECURSIVE EachRow(_, _, _, _, _, _)
EachRow(rows, i, posts, menuSeq, bbsSeq, sitecntntsSeq) ==
  IF i > Len(rows) THEN posts
  ELSE EachRow(rows, i + 1,
               ListRowCallback(posts, rows[i], menuSeq, bbsSeq, sitecntntsSeq),
               menuSeq, bbsSeq, sitecntntsSeq)

\* parseYngogoList from the body of the POST's response on: the rows that
\* '.basic-table01 tr' selects in it, folded into posts
ParseListBody(rows, menuSeq, bbsSeq, sitecntntsSeq) ==
  EachRow(rows, 1, <<>>, menuSeq, bbsSeq, sitecntntsSeq)

\* TurndownService.turndown: the markdown of an HTML text ('' of '')
Turndown(html) == [markdownOf |-> html]

\* parseYngogoDetail from the body of the POST's response on.  The body is
\* [conM, atch]: conM the elements '.conM_txt' selects, each
\* [html |-> inner HTML, imgs |-> number of img below it]; atch the number
\* of elements '#atchFile_div' selects.  content.html() reads the first
\* element, find('img') looks below all of them.
RECURSIVE CountImgs(_)
CountImgs(content) ==
  IF Len(content) = 0 THEN 0 ELSE content[1].imgs + CountImgs(Tail(content))

ParseDetailBody(body) ==
  LET content == body.conM
      contentHtml == IF Len(content) = 0 THEN NoVal ELSE content[1].html
  IN [detailContent |-> Turndown(IF contentHtml = NoVal THEN "" ELSE contentHtml),
      hasAttachedFile |-> body.atch > 0,
      hasAttachedImage |-> CountImgs(content) > 0]

\* ------------------------------------------------- crawling targets
\* src/config/crawling-targets: the groups, each with its targets; a target
\* carries its page url and the parameters its parseList / parseDetail
\* hand to the yngogo parser (nttSeq to parseYngogoDetail only).
crawlingTargetGroups ==
  << [id |-> "g1",
      targets |-> << [id |-> "t1", url |-> "u1", menuSeq |-> <<"7">>,
                      bbsSeq |-> <<"3">>, sitecntntsSeq |-> <<"9">>,
                      nttSeq |-> <<"5">>] >>],
     [id |-> "g2",
      targets |-> << [id |-> "t2", url |-> "u2", menuSeq |-> <<"8">>,
                      bbsSeq |-> <<"4">>, sitecntntsSeq |-> <<"9">>,
                      nttSeq |-> <<"6">>] >>] >>

\* Array.prototype.find, as the index of the first element with that id (0:
\* undefined)
FindById(arr, id) ==
  IF \E i \in 1..Len(arr) : arr[i].id = id
  THEN CHOOSE i \in 1..Len(arr) : arr[i].id = id /\ \A j \in 1..(i - 1) : arr[j].id # id
  ELSE 0

\* ------------------------------------------------------- the requests
NoError == [msg |-> "", arg |-> "", status |-> 0]
NoRes == [status |-> 0, success |-> FALSE, error |-> NoError, cached |-> FALSE, data |-> <<>>]

\* no POST issued
NoForm == [url |-> "", menuSeq |-> <<>>, bbsSeq |-> <<>>, sitecntntsSeq |-> <<>>,
           nttSeq |-> <<>>]

IdleReq ==
  [pc |-> "idle", kind |-> "", groupId |-> "", targetId |-> "",
   skipCache |-> FALSE, url |-> "", html |-> NoVal, hit |-> FALSE,
   gets |-> 0, getStatus |-> 0, posts |-> 0, postStatus |-> 0,
   wroteAt |-> NoTime, after |-> {}, clearSince |-> FALSE, overwrittenBy |-> {},
   form |-> NoForm, fragment |-> <<>>, res |-> NoRes]

\* req.body of /api/parse-list (param is customUrl) and /api/parse-detail
\* (param is detailUrl); "" is a missing or empty parameter
RequestBodies ==
  { [kind |-> "list", groupId |-> "g1", targetId |-> "t1", param |-> p, skipCache |-> sc] :
      p \in {"", "u2"}, sc \in BOOLEAN }
  \cup
  { [kind |-> "detail", groupId |-> "g1", targetId |-> "t1", param |-> p, skipCache |-> FALSE] :
      p \in {"", "u1"} }
  \cup
  { [kind |-> "list", groupId |-> "g1", targetId |-> "t2", param |-> "", skipCache |-> FALSE],
    [kind |-> "detail", groupId |-> "gX", targetId |-> "t1", param |-> "u1", skipCache |-> FALSE] }


\* a handler other than /api/cache-stats and /api/clear-cache has run
NoStats == [size |-> -1, urls |-> <<>>, afterClear |-> FALSE]
Handled == statsResp' = NoStats /\ justCleared' = FALSE

\* res.status(status).json({ error }) of the handlers' early returns
ErrorRes(status, msg, arg) ==
  [NoRes EXCEPT !.status = status, !.error = [msg |-> msg, arg |-> arg, status |-> 0]]

\* the catch block of the handlers: res.status(500).json({ success: false,
\* error: error.message })
CaughtRes(error) == [NoRes EXCEPT !.status = 500, !.error = error]

\* new Error(`HTTP ${response.status}: ${response.statusText}`)
HttpError(status) == [msg |-> "HTTP", arg |-> StatusText(status), status |-> status]

\* the rejection of fetch() or response.text() at network level
NetworkError == [msg |-> "fetch failed", arg |-> "", status |-> 0]

\* mutants of IsFresh: the comparison inverted; the bound included
IsFresh_Inverted(cached, t) == t - cached.timestamp > CACHE_TTL
IsFresh_Inclusive(cached, t) == t - cached.timestamp <= CACHE_TTL

\* cached && Date.now() - cached.timestamp < CACHE_TTL
IsFresh(cached, t) == t - cached.timestamp < CACHE_TTL

\* fetchHtml, lines 50-55: the cached entry that serves the call, if any
CacheHit(m, url, useCache, t) ==
  /\ useCache
  /\ MapHas(m, url)
  /\ IsFresh(MapGet(m, url), t)

TargetOf(rec) ==
  LET group == crawlingTargetGroups[FindById(crawlingTargetGroups, rec.groupId)]
  IN group.targets[FindById(group.targets, rec.targetId)]

LIST_API_URL == "http://www.yngogo.or.kr/module/ntt/unity/selectNttListAjax.ink"
DETAIL_API_URL == "http://www.yngogo.or.kr/module/ntt/unity/selectNttDetailAjax.ink"

\* the POST the parser issues (yngogo.parser lines 56-75 and 119-146): its
\* url and the form fields that are parameters of the parser; the other
\* fields are literals
PostForm(rec) ==
  LET target == TargetOf(rec)
  IN IF rec.kind = "list"
     THEN [url |-> LIST_API_URL, menuSeq |-> target.menuSeq,
           bbsSeq |-> target.bbsSeq, sitecntntsSeq |-> target.sitecntntsSeq,
           nttSeq |-> <<>>]
     ELSE [url |-> DETAIL_API_URL, menuSeq |-> target.menuSeq,
           bbsSeq |-> target.bbsSeq, sitecntntsSeq |-> target.sitecntntsSeq,
           nttSeq |-> target.nttSeq]

\* requests whose fetchHtml call has returned its content
Returned == {q \in Reqs : req[q].html # NoVal}

\* mutant of CallFetchHtml: a call that finds a request for its url in
\* flight waits for that request and issues none of its own
CallFetchHtml_SingleFlight(rec, url, useCache) ==
  LET started == [rec EXCEPT !.url = url, !.after = Returned]
  IN IF CacheHit(htmlCache, url, useCache, now)
     THEN [started EXCEPT !.hit = TRUE, !.html = MapGet(htmlCache, url).html,
                          !.posts = 1, !.form = PostForm(rec), !.pc = "post"]
     ELSE IF \E q \in Reqs : req[q].pc \in {"fetch", "text"} /\ req[q].url = url
     THEN [started EXCEPT !.pc = "fetch"]
     ELSE [started EXCEPT !.gets = 1, !.pc = "fetch"]

\* fetchHtml from its call to its first await (lines 46-64), and, when it
\* returns from the cache, the handler up to the parser's POST (line 114 /
\* 166 and yngogo.parser line 56 / 119)
CallFetchHtml(rec, url, useCache) ==
  LET started == [rec EXCEPT !.url = url, !.after = Returned]
  IN IF CacheHit(htmlCache, url, useCache, now)
     THEN [started EXCEPT !.hit = TRUE, !.html = MapGet(htmlCache, url).html,
                          !.posts = 1, !.form = PostForm(rec), !.pc = "post"]
     ELSE [started EXCEPT !.gets = 1, !.pc = "fetch"]

\* mutant of Handle: the target's 404 names the group
Handle_TargetErrorNamesGroup(body) ==
  LET rec == [IdleReq EXCEPT !.kind = body.kind, !.groupId = body.groupId,
                             !.targetId = body.targetId,
                             !.skipCache = body.skipCache]
      gi == FindById(crawlingTargetGroups, body.groupId)
  IN IF gi = 0
     THEN [rec EXCEPT !.pc = "done",
                      !.res = ErrorRes(404, "Group not found", body.groupId)]
     ELSE LET group == crawlingTargetGroups[gi]
              ti == FindById(group.targets, body.targetId)
          IN IF ti = 0
             THEN [rec EXCEPT !.pc = "done",
                              !.res = ErrorRes(404, "Target not found", body.groupId)]
             ELSE IF body.kind = "detail" /\ body.param = ""
             THEN [rec EXCEPT !.pc = "done",
                              !.res = ErrorRes(400, "detailUrl is required", "")]
             ELSE LET target == group.targets[ti]
                      url == IF body.kind = "list"
                             THEN (IF body.param # "" THEN body.param ELSE target.url)
                             ELSE body.param
                  IN CallFetchHtml(rec, url, ~body.skipCache)

\* app.post('/api/parse-list') and app.post('/api/parse-detail') from the
\* arrival of the request to its first suspension or its early return
Handle(body) ==
  LET rec == [IdleReq EXCEPT !.kind = body.kind, !.groupId = body.groupId,
                             !.targetId = body.targetId,
                             !.skipCache = body.skipCache]
      gi == FindById(crawlingTargetGroups, body.groupId)
  IN IF gi = 0
     THEN [rec EXCEPT !.pc = "done",
                      !.res = ErrorRes(404, "Group not found", body.groupId)]
     ELSE LET group == crawlingTargetGroups[gi]
              ti == FindById(group.targets, body.targetId)
          IN IF ti = 0
             THEN [rec EXCEPT !.pc = "done",
                              !.res = ErrorRes(404, "Target not found", body.targetId)]
             ELSE IF body.kind = "detail" /\ body.param = ""
             THEN [rec EXCEPT !.pc = "done",
                              !.res = ErrorRes(400, "detailUrl is required", "")]
             ELSE LET target == group.targets[ti]
                      url == IF body.kind = "list"
                             THEN (IF body.param # "" THEN body.param ELSE target.url)
                             ELSE body.param
                  IN CallFetchHtml(rec, url, ~body.skipCache)

\* requests arrive in the order of their numbers
NextReq(r) == req[r].pc = "idle" /\ \A q \in 1..(r - 1) : req[q].pc # "idle"

\* mutant of Request: serving a call from an entry renews the entry's
\* timestamp
Request_HitRenews(r, bodies) ==
  /\ NextReq(r)
  /\ \E body \in bodies :
       /\ req' = [req EXCEPT ![r] = Handle(body)]
       /\ htmlCache' =
            IF Handle(body).hit
            THEN MapSet(htmlCache, Handle(body).url, Handle(body).html, now)
            ELSE htmlCache
  /\ Handled
  /\ UNCHANGED <<fnArg, fnRet, now, ticks>>

Request(r, bodies) ==
  /\ NextReq(r)
  /\ \E body \in bodies : req' = [req EXCEPT ![r] = Handle(body)]
  /\ Handled
  /\ UNCHANGED <<fnArg, fnRet, htmlCache, now, ticks>>

\* fetch(url) resolves with a response (line 57); a non-2xx one throws
\* (lines 66-68) into the handler's catch block
FetchRespond(r) ==
  /\ req[r].pc = "fetch"
  /\ \E status \in Statuses :
       req' = [req EXCEPT ![r] =
                 IF ResponseOk(status)
                 THEN [@ EXCEPT !.pc = "text", !.getStatus = status]
                 ELSE [@ EXCEPT !.pc = "done", !.getStatus = status,
                                !.res = CaughtRes(HttpError(status))]]
  /\ Handled
  /\ UNCHANGED <<fnArg, fnRet, htmlCache, now, ticks>>

\* fetch(url) or response.text() rejects at network level
FetchFail(r) ==
  /\ req[r].pc \in {"fetch", "text"}
  /\ req' = [req EXCEPT ![r] = [@ EXCEPT !.pc = "done", !.res = CaughtRes(NetworkError)]]
  /\ Handled
  /\ UNCHANGED <<fnArg, fnRet, htmlCache, now, ticks>>

\* mutant of StoreEntry: an entry is written only when the url has none
StoreEntry_IfAbsent(m, url, html, t) ==
  IF MapHas(m, url) THEN m ELSE MapSet(m, url, html, t)

\* htmlCache.set(url, { html, timestamp: Date.now() }), line 71
StoreEntry(m, url, html, t) == MapSet(m, url, html, t)

\* response.text() resolves (line 70): the entry is written, fetchHtml
\* returns, and the handler goes on to the parser's POST
BodyRead(r, bodies) ==
  /\ req[r].pc = "text"
  /\ \E html \in bodies :
       /\ htmlCache' = StoreEntry(htmlCache, req[r].url, html, now)
       /\ req' = [q \in Reqs |->
                    IF q = r
                    THEN [req[q] EXCEPT !.html = html, !.wroteAt = now,
                                        !.posts = 1, !.form = PostForm(req[q]),
                                        !.pc = "post"]
                    ELSE IF req[q].html # NoVal /\ req[q].url = req[r].url
                    THEN [req[q] EXCEPT !.overwrittenBy = @ \cup {r}]
                    ELSE req[q]]
  /\ Handled
  /\ UNCHANGED <<fnArg, fnRet, now, ticks>>

\* the parser's fetch(LIST_API_URL / DETAIL_API_URL) resolves with a
\* response of any status (yngogo.parser lines 56-75, 119-146)
PostRespond(r, statuses) ==
  /\ req[r].pc = "post"
  /\ \E status \in statuses :
       req' = [req EXCEPT ![r] = [@ EXCEPT !.pc = "postText", !.postStatus = status]]
  /\ Handled
  /\ UNCHANGED <<fnArg, fnRet, htmlCache, now, ticks>>

\* the parser's fetch() or response.text() rejects at network level
PostFail(r) ==
  /\ req[r].pc \in {"post", "postText"}
  /\ req' = [req EXCEPT ![r] = [@ EXCEPT !.pc = "done", !.res = CaughtRes(NetworkError)]]
  /\ Handled
  /\ UNCHANGED <<fnArg, fnRet, htmlCache, now, ticks>>

\* mutant of ParserResult: the page handed to the parser is parsed, not
\* the fragment (a page has no listing rows)
ParserResult_ParsesPage(rec, fragment) ==
  IF rec.kind = "list"
  THEN <<>>
  ELSE <<[detailContent |-> Turndown(rec.html),
          hasAttachedFile |-> FALSE,
          hasAttachedImage |-> FALSE]>>

\* what the parser returns for the body of its POST's response
\* (yngogo.parser lines 77-104, 148-157)
ParserResult(rec, fragment) ==
  IF rec.kind = "list"
  THEN LET target == TargetOf(rec)
       IN ParseListBody(fragment, target.menuSeq, target.bbsSeq, target.sitecntntsSeq)
  ELSE <<ParseDetailBody(fragment[1])>>

\* mutant of JsonSuccess: cached tells whether the content came from the
\* cache
JsonSuccess_CachedIsHit(rec, data, m) ==
  [NoRes EXCEPT !.status = 200, !.success = TRUE, !.data = data,
                !.cached = rec.hit]

\* res.json({ success: true, url, html, items / article, timing, cached }),
\* part_000 lines 117-128 and 169-180
JsonSuccess(rec, data, m) ==
  [NoRes EXCEPT !.status = 200, !.success = TRUE, !.data = data,
                !.cached = (~rec.skipCache /\ MapHas(m, rec.url))]

\* rows of a listing fragment: a header row (th only), data rows whose
\* second td holds the title link, a row whose link has no onclick, a row
\* of a single td
Chars1 == <<"1">>
Chars2 == <<"2">>
OnclickView(id) == FnViewOpen \o id \o <<"'", ",", "'", "a", "'", ")", ";">>
Cell(anchors, text) == [a |-> anchors, text |-> text]
HeaderRow == [cols |-> <<>>]
DataRow(id) ==
  [cols |-> << Cell(<<>>, id),
               Cell(<<[onclick |-> OnclickView(id), text |-> <<" ", "T">> \o id \o <<" ">>]>>, <<"T">> \o id),
               Cell(<<>>, <<"w">>),
               Cell(<<>>, <<" ", "d">> \o id) >>]
NoClickRow ==
  [cols |-> << Cell(<<>>, <<"3">>),
               Cell(<<[onclick |-> NoAttr, text |-> <<"T">>]>>, <<"T">>),
               Cell(<<>>, <<"w">>),
               Cell(<<>>, <<"d">>) >>]
ShortRow == [cols |-> << Cell(<<>>, <<"-">>) >>]
\* a data row whose identifier carries a tracking parameter
TrackedId == <<"4", "&", "f", "b", "c", "l", "i", "d", "=", "z">>
TrackedRow ==
  [cols |-> << Cell(<<>>, <<"4">>),
               Cell(<<[onclick |-> OnclickView(TrackedId), text |-> <<"T", "4">>]>>, <<"T", "4">>),
               Cell(<<>>, <<"w">>),
               Cell(<<>>, <<"d", "4">>) >>]

RowKinds == {HeaderRow, DataRow(Chars1), DataRow(Chars2), NoClickRow, ShortRow, TrackedRow}

\* bodies the list endpoint answers with in the runs of the server
ListBodies == { <<HeaderRow, DataRow(Chars1)>> }

\* bodies the detail endpoint answers with
DetailBodies == { <<[conM |-> <<[html |-> "<img>", imgs |-> 1]>>, atch |-> 0]>> }

\* the parser's response.text() resolves; the fragment is parsed and the
\* handler answers
PostBody(r, listBodies, detailBodies) ==
  /\ req[r].pc = "postText"
  /\ \E fragment \in (IF req[r].kind = "list" THEN listBodies ELSE detailBodies) :
       req' = [req EXCEPT ![r] =
                 [@ EXCEPT !.pc = "done", !.fragment = fragment,
                           !.res = JsonSuccess(req[r], ParserResult(req[r], fragment), htmlCache)]]
  /\ Handled
  /\ UNCHANGED <<fnArg, fnRet, htmlCache, now, ticks>>

\* mutant of ClearCache: the fetches in flight are aborted
ClearCache_AbortsFetches ==
  /\ htmlCache' = MapClear(htmlCache)
  /\ req' = [q \in Reqs |->
               IF req[q].pc \in {"fetch", "text"}
               THEN [req[q] EXCEPT !.clearSince = TRUE, !.pc = "done",
                                   !.res = CaughtRes(NetworkError)]
               ELSE IF req[q].pc # "idle" THEN [req[q] EXCEPT !.clearSince = TRUE]
               ELSE req[q]]
  /\ statsResp' = NoStats
  /\ justCleared' = TRUE
  /\ UNCHANGED <<fnArg, fnRet, now, ticks>>

\* app.post('/api/clear-cache')
ClearCache ==
  /\ htmlCache' = MapClear(htmlCache)
  /\ req' = [q \in Reqs |->
               IF req[q].pc # "idle" THEN [req[q] EXCEPT !.clearSince = TRUE] ELSE req[q]]
  /\ statsResp' = NoStats
  /\ justCleared' = TRUE
  /\ UNCHANGED <<fnArg, fnRet, now, ticks>>

\* app.get('/api/cache-stats')
StatsOf(m) == [size |-> MapSize(m), urls |-> MapKeys(m), afterClear |-> FALSE]

CacheStats ==
  /\ statsResp' = [StatsOf(htmlCache) EXCEPT !.afterClear = justCleared]
  /\ justCleared' = FALSE
  /\ UNCHANGED <<fnArg, fnRet, htmlCache, now, req, ticks>>

\* mutant of Tick: a request whose fetch is outstanding when the clock
\* advances is aborted
Tick_TimesOut ==
  /\ ticks < MaxTicks
  /\ now' = now + TickStep(ticks + 1)
  /\ ticks' = ticks + 1
  /\ req' = [q \in Reqs |->
               IF req[q].pc = "fetch"
               THEN [req[q] EXCEPT !.pc = "done", !.res = CaughtRes(NetworkError)]
               ELSE req[q]]
  /\ UNCHANGED <<fnArg, fnRet, htmlCache, statsResp, justCleared>>

\* time passes
Tick ==
  /\ ticks < MaxTicks
  /\ now' = now + TickStep(ticks + 1)
  /\ ticks' = ticks + 1
  /\ UNCHANGED <<fnArg, fnRet, htmlCache, req, statsResp, justCleared>>

Init ==
  /\ htmlCache = <<>>
  /\ now = 0
  /\ req = [r \in Reqs |-> IdleReq]
  /\ ticks = 0
  /\ statsResp = NoStats
  /\ justCleared = FALSE
  /\ fnArg = NoCall
  /\ fnRet = NoRet

Next ==
  \/ \E r \in Reqs : Request(r, RequestBodies)
  \/ \E r \in Reqs : FetchRespond(r)
  \/ \E r \in Reqs : FetchFail(r)
  \/ \E r \in Reqs : BodyRead(r, Bodies)
  \/ \E r \in Reqs : PostRespond(r, {200})
  \/ \E r \in Reqs : PostFail(r)
  \/ \E r \in Reqs : PostBody(r, ListBodies, DetailBodies)
  \/ ClearCache
  \/ CacheStats
  \/ Tick

Spec == Init /\ [][Next]_vars

\* ---------------------------------------------------------------------
\* The parser alone: one request of each kind, the internal data endpoint
\* answering with any status and any fragment of up to MaxRows rows.
MaxRows == 4

AllListBodies == UNION { [1..n -> RowKinds] : n \in 0..MaxRows }

ConMElements == { [html |-> "<p>x</p>", imgs |-> 0], [html |-> "<img>", imgs |-> 1] }

AllDetailBodies ==
  { <<[conM |-> c, atch |-> a]>> :
      c \in {<<>>} \cup { <<e>> : e \in ConMElements }
             \cup { <<e1, e2>> : e1 \in ConMElements, e2 \in ConMElements },
      a \in 0..1 }

ParserRequestBodies ==
  { [kind |-> k, groupId |-> "g1", targetId |-> "t1", param |-> "u1", skipCache |-> FALSE] :
      k \in {"list", "detail"} }

ParserNext ==
  \/ Request(1, ParserRequestBodies)
  \/ FetchRespond(1)
  \/ FetchFail(1)
  \/ BodyRead(1, Bodies)
  \/ PostRespond(1, Statuses)
  \/ PostFail(1)
  \/ PostBody(1, AllListBodies, AllDetailBodies)

ParserSpec == Init /\ [][ParserNext]_vars

\* ---------------------------------------------------------------------
\* The server with a hung upstream: the source of HungUrl never answers a
\* request, every other request that is sent is answered or fails in the
\* end.  A request that has been answered leaves, so that any number of
\* requests is served, MaxReqs of them at a time.
HungUrl == "u1"

\* list requests for the url of the hung source and for another one
HungRequestBodies ==
  { [kind |-> "list", groupId |-> "g1", targetId |-> "t1", param |-> p, skipCache |-> sc] :
      p \in {"", "u2"}, sc \in BOOLEAN }

\* page bodies the other source answers with
HungBodies == {"A"}

\* res.json / res.status().json has sent the response: the request is over
Forget(r) ==
  /\ req[r].pc = "done"
  /\ req' = [q \in Reqs |->
               IF q = r THEN IdleReq
               ELSE [req[q] EXCEPT !.after = @ \ {r}, !.overwrittenBy = @ \ {r}]]
  /\ UNCHANGED <<fnArg, fnRet, htmlCache, now, ticks, statsResp, justCleared>>

\* the upstream of r's url answers
Answers(r) == req[r].url # HungUrl

\* the next step of request r, whichever it is
Proceed(r) ==
  \/ Answers(r) /\ FetchRespond(r)
  \/ Answers(r) /\ FetchFail(r)
  \/ BodyRead(r, HungBodies)
  \/ PostRespond(r, {200})
  \/ PostFail(r)
  \/ PostBody(r, ListBodies, DetailBodies)

HungNext ==
  \/ \E r \in Reqs : Request(r, HungRequestBodies)
  \/ \E r \in Reqs : Answers(r) /\ FetchRespond(r)
  \/ \E r \in Reqs : Answers(r) /\ FetchFail(r)
  \/ \E r \in Reqs : BodyRead(r, HungBodies)
  \/ \E r \in Reqs : PostRespond(r, {200})
  \/ \E r \in Reqs : PostFail(r)
  \/ \E r \in Reqs : PostBody(r, ListBodies, DetailBodies)
  \/ \E r \in Reqs : Forget(r)
  \/ ClearCache
  \/ CacheStats
  \/ Tick

\* the event loop runs the continuation of every request whose awaited
\* response has arrived
HungSpec ==
  /\ Init
  /\ [][HungNext]_vars
  /\ \A r \in Reqs : WF_vars(Proceed(r))

\* ---------------------------------------------------------------------
\* The extraction functions alone: one call of extractNttSeq or getUniqId
\* on a text put together from parts.
\*
\* A text for extractNttSeq is pre \o "nttSeq" \o sep \o quote \o digits \o
\* post.  A part that may itself hold an occurrence carries the digits of
\* its first occurrence written with '=' (eq) and of its first occurrence
\* written with '=' or ':' (any).
NttPre ==
  { [text |-> <<>>, eq |-> <<>>, any |-> <<>>],
    [text |-> <<"x", "=", "1", "&">>, eq |-> <<>>, any |-> <<>>],
    [text |-> <<"n", "t", "t", "S", "e", "q", "=", "&">>, eq |-> <<>>, any |-> <<>>],
    [text |-> <<"p", "a", "r", "n", "t", "s", "N", "t", "t", "S", "e", "q", "=", "3", "&">>, eq |-> <<>>, any |-> <<>>],
    [text |-> <<"n", "t", "t", "S", "e", "q", ":", "8", ",">>, eq |-> <<>>, any |-> <<"8">>] }

NttSep == { <<"=">>, <<":">>, <<" ">> }

NttQuote == { <<>>, <<"'">>, <<"\"">>, <<"#">> }

NttDigits == { <<>>, <<"7">>, <<"1", "0", "0", "5", "2", "0", "0", "6", "4", "4">> }

NttPost ==
  { [text |-> <<>>, eq |-> <<>>, any |-> <<>>],
    [text |-> <<"'">>, eq |-> <<>>, any |-> <<>>],
    [text |-> <<"\"">>, eq |-> <<>>, any |-> <<>>],
    [text |-> <<"x">>, eq |-> <<>>, any |-> <<>>],
    [text |-> <<"&", "n", "t", "t", "S", "e", "q", "=", "9">>, eq |-> <<"9">>, any |-> <<"9">>] }

NttSeqCases ==
  { [fn |-> "extractNttSeq", pre |-> p, sep |-> sp, quote |-> q, digits |-> d, post |-> t] :
      p \in NttPre, sp \in NttSep, q \in NttQuote, d \in NttDigits, t \in NttPost }

NttText(c) == c.pre.text \o NttSeqName \o c.sep \o c.quote \o c.digits \o c.post.text

\* A handler for getUniqId is pre \o call \o rest, the call written in one
\* of five forms around arg; rest carries the argument of its first
\* fnView('...') call (found).  An element is a selection of no anchor, of
\* anchors without onclick, or of one or two anchors, the first with the
\* handler.
FnPre == { <<>>, <<"r", "e", "t", "u", "r", "n", " ">>, <<"f", "n", "L", "i", "s", "t", "(", "'", "x", "'", ")", ";">> }

FnForms == {"single", "double", "bare", "lower", "spaced"}

FnArgs == { <<>>, <<"1">>, <<"1", "0", "0", "5", "2", "0", "0", "6", "4", "2">>, <<"a", " ", "b">> }

FnRest ==
  { [text |-> <<>>, found |-> <<>>, has |-> FALSE],
    [text |-> <<")">>, found |-> <<>>, has |-> FALSE],
    [text |-> <<",", " ", "'", "a", "d", "m", "i", "n", "'", ",", " ", "'", "'", ",", " ", "'", "'", ",", "'", "'", ")">>, found |-> <<>>, has |-> FALSE],
    [text |-> <<")", ";", "f", "n", "V", "i", "e", "w", "(", "'", "9", "'", ")">>, found |-> <<"9">>, has |-> TRUE] }

FnCall(form, arg) ==
  CASE form = "single" -> FnViewOpen \o arg \o <<"'">>
    [] form = "double" -> <<"f", "n", "V", "i", "e", "w", "(", "\"">> \o arg \o <<"\"">>
    [] form = "bare" -> <<"f", "n", "V", "i", "e", "w", "(">> \o arg
    [] form = "lower" -> <<"f", "n", "v", "i", "e", "w", "(", "'">> \o arg \o <<"'">>
    [] form = "spaced" -> <<"f", "n", "V", "i", "e", "w", " ", "(", "'">> \o arg \o <<"'">>

UniqIdCases ==
  { [fn |-> "getUniqId", anchors |-> n, pre |-> p, form |-> f, arg |-> a, rest |-> t] :
      n \in 1..2, p \in FnPre, f \in FnForms, a \in FnArgs, t \in FnRest }
  \cup
  { [fn |-> "getUniqId", anchors |-> n, pre |-> <<>>, form |-> "none", arg |-> <<>>,
     rest |-> [text |-> <<>>, found |-> <<>>, has |-> FALSE]] : n \in 0..2 }

HandlerOf(c) == c.pre \o FnCall(c.form, c.arg) \o c.rest.text

ElementOf(c) ==
  LET first == [onclick |-> IF c.form = "none" THEN NoAttr ELSE HandlerOf(c),
                text |-> <<"T">>]
      second == [onclick |-> FnViewOpen \o <<"0", "'", ")">>, text |-> <<"U">>]
  IN IF c.anchors = 0 THEN <<>>
     ELSE IF c.anchors = 1 THEN <<first>>
     ELSE <<first, second>>

CallExtractNttSeq ==
  /\ fnArg.fn = "extractNttSeq"
  /\ fnRet = NoRet
  /\ fnRet' = extractNttSeq(NttText(fnArg))
  /\ UNCHANGED <<htmlCache, now, req, ticks, statsResp, justCleared, fnArg>>

CallGetUniqId ==
  /\ fnArg.fn = "getUniqId"
  /\ fnRet = NoRet
  /\ fnRet' = getUniqId(ElementOf(fnArg))
  /\ UNCHANGED <<htmlCache, now, req, ticks, statsResp, justCleared, fnArg>>

FunctionInit ==
  /\ htmlCache = <<>>
  /\ now = 0
  /\ req = [r \in Reqs |-> IdleReq]
  /\ ticks = 0
  /\ statsResp = NoStats
  /\ justCleared = FALSE
  /\ fnArg \in NttSeqCases \cup UniqIdCases
  /\ fnRet = NoRet

FunctionNext ==
  \/ CallExtractNttSeq
  \/ CallGetUniqId

FunctionSpec == FunctionInit /\ [][FunctionNext]_vars

\* =====================================================================
\* Claims
\* =====================================================================
Is2xx(status) == status \in 200..299

\* r is a call of fetchHtml (the handler got past its early returns)
Called(r) == req[r].pc # "idle" /\ req[r].url # ""
CacheEnabled(r) == Called(r) /\ ~req[r].skipCache
HasReturned(r) == Called(r) /\ req[r].html # NoVal

\* r's call of fetchHtml starts in this step
Starts(r) == req[r].pc = "idle" /\ req'[r].pc # "idle" /\ req'[r].url # ""

\* C1, as stated: for every URL, two cache-enabled fetchHtml(url) calls made
\* within the TTL window (here: in a run that has lasted less than the TTL)
\* with no intervening clear return identical content and together trigger
\* exactly one network request.
C1_AsStated ==
  \A a \in Reqs : \A b \in Reqs :
    ( /\ a < b
      /\ CacheEnabled(a) /\ CacheEnabled(b)
      /\ req[a].url = req[b].url
      /\ HasReturned(a) /\ HasReturned(b)
      /\ now < 300000
      /\ ~req[a].clearSince )
    => /\ req[a].html = req[b].html
       /\ req[a].gets + req[b].gets = 1

\* b's call follows a's: a's call went to the network and has returned, no
\* clear has run since a's call started, no other call has written the url's
\* entry since a's call returned, and a's write is less than the TTL old
FollowsFetch(a, b) ==
  /\ a # b
  /\ HasReturned(a)
  /\ req[a].gets = 1
  /\ ~req[a].clearSince
  /\ req[a].overwrittenBy = {}
  /\ now - req[a].wroteAt < 300000

\* C1, amended: a cache-enabled fetchHtml(url) call that starts after a
\* cache-enabled call of the same url that went to the network has returned,
\* less than the TTL after that call's write, with no clear and no other
\* write of the url's entry in between, returns the same content without a
\* network request: the two trigger exactly one network request.
C1_SequentialCallsShareOneFetch ==
  [][ \A a \in Reqs : \A b \in Reqs :
        ( /\ FollowsFetch(a, b)
          /\ CacheEnabled(a)
          /\ Starts(b)
          /\ ~req'[b].skipCache
          /\ req'[b].url = req[a].url )
        => /\ req'[b].html = req[a].html
           /\ req[a].gets + req'[b].gets = 1 ]_vars

C1_Witness ==
  \E a \in Reqs : \E b \in Reqs :
    /\ a \in req[b].after
    /\ CacheEnabled(a) /\ CacheEnabled(b)
    /\ req[a].url = req[b].url
    /\ req[a].gets = 1 /\ req[b].gets = 0
    /\ HasReturned(b) /\ req[b].html = req[a].html
    /\ ~req[a].clearSince /\ req[a].overwrittenBy = {}
    /\ now > req[a].wroteAt

\* the entries of m under key u
EntriesOf(m, u) == {i \in 1..Len(m) : m[i].url = u}

\* C2: a fetchHtml(url, useCache = false) call always issues a network
\* request, whether or not a fresh entry exists; on a 2xx response the url's
\* entry is the body just read with the current timestamp; a later
\* cache-enabled call within the TTL returns that body.
C2_ForcedFetchRefreshesEntry ==
  [][ /\ \A r \in Reqs :
           (Starts(r) /\ req'[r].skipCache)
           => /\ req'[r].gets = 1
              /\ req'[r].pc = "fetch"
              /\ req'[r].html = NoVal
      /\ \A r \in Reqs :
           (req[r].skipCache /\ req[r].pc = "text" /\ req'[r].html # NoVal)
           => /\ Cardinality(EntriesOf(htmlCache', req[r].url)) = 1
              /\ \A i \in EntriesOf(htmlCache', req[r].url) :
                   /\ htmlCache'[i].html = req'[r].html
                   /\ htmlCache'[i].timestamp = now
      /\ \A a \in Reqs : \A b \in Reqs :
           ( /\ FollowsFetch(a, b)
             /\ req[a].skipCache
             /\ Starts(b)
             /\ ~req'[b].skipCache
             /\ req'[b].url = req[a].url )
           => /\ req'[b].html = req[a].html
              /\ req'[b].gets = 0 ]_vars

\* a forced call found the fresh entry of an earlier call and replaced it
\* with another body
C2_Witness ==
  \E a \in Reqs : \E b \in Reqs :
    /\ a \in req[b].after
    /\ CacheEnabled(a) /\ req[a].gets = 1
    /\ Called(b) /\ req[b].skipCache /\ req[b].gets = 1
    /\ req[a].url = req[b].url
    /\ HasReturned(b) /\ req[b].html # req[a].html
    /\ ~req[a].clearSince
    /\ req[a].overwrittenBy = {b}
    /\ now - req[a].wroteAt < 300000
    /\ \E i \in EntriesOf(htmlCache, req[b].url) : htmlCache[i].html = req[b].html

\* C3: an entry is fresh iff now - fetchedAt < TTL (5 minutes): a
\* cache-enabled call made when the url's entry is TTL old or older goes to
\* the network, one made when it is younger does not.
C3_FreshIffYoungerThanTtl ==
  [][ \A r \in Reqs : \A i \in 1..Len(htmlCache) :
        ( /\ Starts(r)
          /\ ~req'[r].skipCache
          /\ htmlCache[i].url = req'[r].url )
        => IF now - htmlCache[i].timestamp >= 300000
           THEN req'[r].gets = 1 /\ req'[r].pc = "fetch" /\ req'[r].html = NoVal
           ELSE req'[r].gets = 0 /\ req'[r].html = htmlCache[i].html ]_vars

\* a cache-enabled call has started when the entry was exactly TTL old, and
\* waits for the network
C3_Witness ==
  \E a \in Reqs : \E b \in Reqs :
    /\ a \in req[b].after
    /\ HasReturned(a) /\ req[a].gets = 1
    /\ CacheEnabled(b) /\ req[b].pc = "fetch" /\ req[b].gets = 1
    /\ req[a].url = req[b].url
    /\ ~req[a].clearSince /\ req[a].overwrittenBy = {}
    /\ now - req[a].wroteAt = 300000

\* C4: clear() followed by stats() reports zero entries and an empty key set,
\* whatever the cache held; and the size stats() reports is the number of
\* keys it reports.
C4_ClearThenStatsIsEmpty ==
  /\ statsResp.afterClear => (statsResp.size = 0 /\ statsResp.urls = <<>>)
  /\ statsResp # NoStats =>
       statsResp.size = Cardinality({statsResp.urls[i] : i \in 1..Len(statsResp.urls)})

\* stats() has answered right after a clear() that removed a written entry
C4_Witness ==
  /\ statsResp.afterClear
  /\ \E r \in Reqs :
       /\ HasReturned(r) /\ req[r].gets = 1 /\ req[r].clearSince
       /\ EntriesOf(htmlCache, req[r].url) = {}

\* C5: when the response of fetchHtml(url)'s request is non-2xx, the call
\* fails with an error carrying the status and statusText, and the cache is
\* left as it was.
C5_Non2xxFailsAndLeavesCache ==
  [][ \A r \in Reqs :
        (req[r].pc = "fetch" /\ req'[r].getStatus # 0 /\ ~Is2xx(req'[r].getStatus))
        => /\ req'[r].pc = "done"
           /\ req'[r].html = NoVal
           /\ ~req'[r].res.success
           /\ req'[r].res.error.msg = "HTTP"
           /\ req'[r].res.error.status = req'[r].getStatus
           /\ (req'[r].getStatus = 500
                 => req'[r].res.error.arg = "Internal Server Error")
           /\ htmlCache' = htmlCache ]_vars

\* a call has failed on a 500 while the cache held an entry for its url
C5_Witness ==
  \E r \in Reqs :
    /\ req[r].pc = "done" /\ req[r].getStatus = 500
    /\ req[r].res.error.status = 500
    /\ EntriesOf(htmlCache, req[r].url) # {}

\* C6: the cache holds at most one entry per url; a key leaves the cache
\* only by clear(), and an entry changes only when a fetch of its url
\* succeeds.
C6_OneEntryPerUrlUntilClear ==
  [][ /\ \A u \in Urls : Cardinality(EntriesOf(htmlCache', u)) <= 1
      /\ \A u \in Urls :
           (EntriesOf(htmlCache, u) # {} /\ EntriesOf(htmlCache', u) = {})
           => (justCleared' /\ htmlCache' = <<>>)
      /\ \A u \in Urls : \A i \in EntriesOf(htmlCache, u) : \A j \in EntriesOf(htmlCache', u) :
           htmlCache'[j] # htmlCache[i]
           => \E r \in Reqs :
                /\ req[r].url = u /\ req[r].pc = "text"
                /\ req'[r].html = htmlCache'[j].html
                /\ htmlCache'[j].timestamp = now ]_vars

\* a stale entry is still in the cache after time has passed and a
\* cache-enabled call has read it
C6_Witness ==
  \E a \in Reqs : \E b \in Reqs :
    /\ a \in req[b].after
    /\ HasReturned(a)
    /\ CacheEnabled(b) /\ req[b].gets = 1 /\ req[b].pc = "fetch"
    /\ req[a].url = req[b].url
    /\ \E i \in EntriesOf(htmlCache, req[a].url) :
         /\ htmlCache[i].html = req[a].html
         /\ htmlCache[i].timestamp = req[a].wroteAt
         /\ now - htmlCache[i].timestamp >= 300000

KnownGroup(g) == \E i \in 1..Len(crawlingTargetGroups) : crawlingTargetGroups[i].id = g

KnownTarget(g, t) ==
  \E i \in 1..Len(crawlingTargetGroups) :
    /\ crawlingTargetGroups[i].id = g
    /\ \E j \in 1..Len(crawlingTargetGroups[i].targets) :
         crawlingTargetGroups[i].targets[j].id = t

\* C7: a request naming a known group and an unknown target fails with a
\* not-found error that names the target, an unknown group with one that
\* names the group; such a request issues no network request and leaves the
\* cache unchanged.
C7_NotFoundNamesTheMissingId ==
  [][ \A r \in Reqs :
        (req[r].pc = "idle" /\ req'[r].pc # "idle"
           /\ ~KnownTarget(req'[r].groupId, req'[r].targetId))
        => /\ req'[r].pc = "done"
           /\ req'[r].res.status = 404
           /\ ~req'[r].res.success
           /\ IF KnownGroup(req'[r].groupId)
              THEN /\ req'[r].res.error.msg = "Target not found"
                   /\ req'[r].res.error.arg = req'[r].targetId
              ELSE /\ req'[r].res.error.msg = "Group not found"
                   /\ req'[r].res.error.arg = req'[r].groupId
           /\ req'[r].gets = 0 /\ req'[r].posts = 0
           /\ htmlCache' = htmlCache ]_vars

\* a request for target t2 of group g1 (t2 is a target of g2 only) has been
\* answered while the cache held entries
C7_Witness ==
  \E r \in Reqs :
    /\ req[r].pc = "done"
    /\ req[r].groupId = "g1" /\ req[r].targetId = "t2"
    /\ req[r].res.status = 404 /\ req[r].res.error.arg = "t2"
    /\ htmlCache # <<>>

\* a list request answered with success
ListDone(r) == req[r].pc = "done" /\ req[r].kind = "list" /\ req[r].res.success

\* what a row of RowKinds shows: the identifier in its link's fnView call
\* ('' when there is none) and its title
ShownId(row) ==
  IF row = DataRow(Chars1) THEN <<"1">>
  ELSE IF row = DataRow(Chars2) THEN <<"2">>
  ELSE IF row = TrackedRow THEN TrackedId
  ELSE <<>>

ShownTitle(row) ==
  IF row = DataRow(Chars1) THEN <<"T", "1">>
  ELSE IF row = DataRow(Chars2) THEN <<"T", "2">>
  ELSE IF row = NoClickRow THEN <<"T">>
  ELSE IF row = TrackedRow THEN <<"T", "4">>
  ELSE <<>>

HasTd(row) == Len(row.cols) >= 1

\* C8, as stated: when the internal data endpoint answers the parser's POST
\* with a non-2xx status, the parser call fails with a fetch error instead
\* of returning a list or a detail record.
C8_Non2xxPostFails ==
  \A r \in Reqs :
    (req[r].pc = "done" /\ req[r].postStatus # 0 /\ ~Is2xx(req[r].postStatus))
    => (~req[r].res.success /\ req[r].res.error # NoError)

\* C9: parseYngogoList returns exactly one item per row that has at least
\* one td, in row order, and none for a row without td.
C9_OneItemPerDataRow ==
  \A r \in Reqs :
    ListDone(r) =>
      LET dataRows == SelectSeq(req[r].fragment, HasTd)
          items == req[r].res.data
      IN /\ Len(items) = Len(dataRows)
         /\ \A i \in 1..Len(dataRows) :
              /\ i <= Len(items)
              /\ items[i].uniqId = ShownId(dataRows[i])
              /\ items[i].title = ShownTitle(dataRows[i])

\* three data rows and one header-only row have yielded three items
C9_Witness ==
  \E r \in Reqs :
    /\ ListDone(r)
    /\ Len(req[r].fragment) = 4
    /\ Cardinality({i \in 1..4 : ~HasTd(req[r].fragment[i])}) = 1
    /\ Len(req[r].res.data) = 3

\* C10, as stated: the uniqId values of the items of one listing page are
\* pairwise distinct, for every listing fragment.
C10_IdsPairwiseDistinct ==
  \A r \in Reqs :
    ListDone(r) =>
      \A i \in 1..Len(req[r].res.data) : \A j \in 1..Len(req[r].res.data) :
        i # j => req[r].res.data[i].uniqId # req[r].res.data[j].uniqId

\* C11, as stated: a data row whose title link is missing or carries no
\* fnView('...') click handler produces no list item, so every item that
\* parseYngogoList returns has a non-empty id.
C11_MalformedRowsSkipped ==
  \A r \in Reqs :
    ListDone(r) =>
      /\ \A i \in 1..Len(req[r].res.data) : req[r].res.data[i].uniqId # <<>>
      /\ Len(req[r].res.data) =
           Cardinality({i \in 1..Len(req[r].fragment) :
                          /\ HasTd(req[r].fragment[i])
                          /\ ShownId(req[r].fragment[i]) # <<>>})

\* C12: for every listing fragment, every item that parseYngogoList returns
\* has a non-empty detailUrl that canonicalization leaves unchanged
\* (cleanUrl(detailUrl) = detailUrl).
C12_DetailUrlIsCanonical ==
  \A r \in Reqs :
    ListDone(r) =>
      \A i \in 1..Len(req[r].res.data) :
        /\ Len(req[r].res.data[i].detailUrl) > 0
        /\ cleanUrl(req[r].res.data[i].detailUrl) = req[r].res.data[i].detailUrl

\* an item whose identifier carried a tracking parameter has a detailUrl
\* from which canonicalization removed it
C12_Witness ==
  \E r \in Reqs :
    /\ ListDone(r)
    /\ \E i \in 1..Len(req[r].res.data) :
         LET item == req[r].res.data[i]
             target == TargetOf(req[r])
             composed == DetailUrlTemplate(target.menuSeq, item.uniqId,
                                           target.bbsSeq, target.sitecntntsSeq)
         IN /\ item.uniqId = TrackedId
            /\ item.detailUrl # composed
            /\ Len(item.detailUrl) < Len(composed)
            /\ Len(item.detailUrl) > 0

\* a request whose parser call has returned
Parsed(r) == req[r].pc = "done" /\ req[r].postStatus # 0 /\ req[r].res.success

\* C13: the parser ignores the page handed to it: two parser calls with the
\* same parameters and the same answer of the internal data endpoint issue
\* the same single POST and return the same result, whatever the two pages
\* are; so a parse whose page came from the cache still issues one POST.
C13_ParserIgnoresPage ==
  /\ \A a \in Reqs : \A b \in Reqs :
       ( /\ Parsed(a) /\ Parsed(b)
         /\ req[a].kind = req[b].kind
         /\ req[a].groupId = req[b].groupId
         /\ req[a].targetId = req[b].targetId
         /\ req[a].postStatus = req[b].postStatus
         /\ req[a].fragment = req[b].fragment )
       => /\ req[a].form = req[b].form
          /\ req[a].posts = 1 /\ req[b].posts = 1
          /\ req[a].res.data = req[b].res.data
  /\ \A r \in Reqs :
       HasReturned(r) => /\ req[r].posts = 1
                         /\ req[r].form # NoForm
                         /\ req[r].form.url # ""

\* two detail parses of one target were handed different pages and
\* returned the same article
C13_Witness ==
  \E a \in Reqs : \E b \in Reqs :
    /\ a # b
    /\ Parsed(a) /\ Parsed(b)
    /\ req[a].kind = "detail" /\ req[b].kind = "detail"
    /\ req[a].targetId = req[b].targetId
    /\ req[a].html # req[b].html
    /\ req[a].fragment = req[b].fragment
    /\ req[a].res.data = req[b].res.data
    /\ req[a].res.data # <<>>

\* a call of the function fn has returned
FnReturned(fn) == fnArg.fn = fn /\ fnRet # NoRet

QuoteStyles == { <<>>, <<"'">>, <<"\"">> }

\* C14, as stated: extractNttSeq accepts nttSeq=N, nttSeq='N' and nttSeq="N"
\* and returns the digit string N of the first such occurrence in the text;
\* text with no such nttSeq= occurrence yields the empty string.
C14_AsStated ==
  FnReturned("extractNttSeq") =>
    LET c == fnArg
        own == IF c.sep = <<"=">> /\ c.quote \in QuoteStyles THEN c.digits ELSE <<>>
        first == IF c.pre.eq # <<>> THEN c.pre.eq
                 ELSE IF own # <<>> THEN own
                 ELSE c.post.eq
    IN fnRet = first

\* C14, amended: extractNttSeq accepts N, 'N' and "N" after nttSeq= or
\* nttSeq: and returns the digit string N of the first such occurrence in
\* the text; text with no such occurrence yields the empty string.
C14_FirstOccurrenceEitherSeparator ==
  FnReturned("extractNttSeq") =>
    LET c == fnArg
        own == IF c.sep \in {<<"=">>, <<":">>} /\ c.quote \in QuoteStyles
               THEN c.digits ELSE <<>>
        first == IF c.pre.any # <<>> THEN c.pre.any
                 ELSE IF own # <<>> THEN own
                 ELSE c.post.any
    IN fnRet = first

\* nttSeq:"1005200644" after an nttSeq= without digits has yielded
\* 1005200644
C14_Witness ==
  /\ FnReturned("extractNttSeq")
  /\ Len(fnArg.pre.text) >= 7 /\ fnArg.pre.any = <<>>
  /\ SubSeq(fnArg.pre.text, 1, 7) = NttSeqName \o <<"=">>
  /\ fnArg.sep = <<":">>
  /\ fnArg.quote = <<"\"">>
  /\ Len(fnArg.digits) = 10
  /\ fnRet = fnArg.digits

\* C15: getUniqId returns the first single-quoted argument of the fnView(
\* call in the onclick handler of the element, and the empty string when
\* the handler is absent or holds no such call.
C15_FirstQuotedArgument ==
  FnReturned("getUniqId") =>
    LET c == fnArg
    IN fnRet = IF c.anchors = 0 \/ c.form = "none" THEN <<>>
               ELSE IF c.form = "single" THEN c.arg
               ELSE c.rest.found

\* fnView('1005200642', 'admin', '', '','') has yielded 1005200642
C15_Witness ==
  /\ FnReturned("getUniqId")
  /\ fnArg.form = "single"
  /\ Len(fnArg.arg) = 10
  /\ Len(fnArg.rest.text) > 10 /\ ~fnArg.rest.has
  /\ fnArg.pre = <<>>
  /\ fnRet = fnArg.arg

\* r's network request is outstanding or its body is being read
InFlight(r) == req[r].pc \in {"fetch", "text"}

\* a and b overlapped: neither had returned when the other started
Overlapped(a, b) == a # b /\ a \notin req[b].after /\ b \notin req[a].after

\* C16: there is no single-flight: a fetchHtml call that starts while
\* another call of the same url is in flight, with no fresh entry to serve
\* it, issues its own network request and leaves the other's running; each
\* of two overlapping calls writes the entry when its body has been read,
\* so the entry is that of the call that completes last, whichever started
\* first.
C16_OverlappingCallsEachFetchLastWriteWins ==
  [][ \A a \in Reqs : \A b \in Reqs :
        /\ ( /\ a # b
             /\ InFlight(a)
             /\ Starts(b)
             /\ req'[b].url = req[a].url
             /\ ~CacheHit(htmlCache, req[a].url, ~req'[b].skipCache, now) )
           => /\ req'[b].gets = 1
              /\ req'[b].pc = "fetch"
              /\ req'[a] = req[a]
        /\ ( /\ Overlapped(a, b)
             /\ req[a].url = req[b].url
             /\ HasReturned(b) /\ req[b].gets = 1
             /\ req[a].pc = "text" /\ req'[a].html # NoVal )
           => /\ req[a].gets = 1
              /\ Cardinality(EntriesOf(htmlCache', req[a].url)) = 1
              /\ \A i \in EntriesOf(htmlCache', req[a].url) :
                   /\ htmlCache'[i].html = req'[a].html
                   /\ htmlCache'[i].timestamp = now ]_vars

\* of two overlapping cache-enabled calls of one url, the one that started
\* first completed last, and the entry holds its body, not the other's
C16_Witness ==
  \E a \in Reqs : \E b \in Reqs :
    /\ a < b
    /\ Overlapped(a, b)
    /\ CacheEnabled(a) /\ CacheEnabled(b)
    /\ req[a].url = req[b].url
    /\ HasReturned(a) /\ HasReturned(b)
    /\ req[a].gets = 1 /\ req[b].gets = 1
    /\ req[b].overwrittenBy = {a} /\ req[a].overwrittenBy = {}
    /\ req[a].html # req[b].html
    /\ req[b].wroteAt < req[a].wroteAt
    /\ \E i \in EntriesOf(htmlCache, req[a].url) :
         /\ htmlCache[i].html = req[a].html
         /\ htmlCache[i].timestamp = req[a].wroteAt

\* r waits for the upstream that never answers
Hung(r) == req[r].pc = "fetch" /\ req[r].url = HungUrl

SomeHung == \E a \in Reqs : Hung(a)

\* C17: while the request for one url is never answered, a fetchHtml call
\* of another url whose request is answered completes, a cache-enabled call
\* of a url with a fresh entry returns at once, and clear() and stats()
\* complete; the hung call never terminates and is not retried.
C17_HungUpstreamStallsOnlyItsRequest ==
  /\ [][ \A a \in Reqs :
           Hung(a) => /\ req'[a].pc = "fetch"
                      /\ req'[a].gets = 1
                      /\ req'[a].res = NoRes ]_vars
  /\ \A b \in Reqs :
       (SomeHung /\ InFlight(b) /\ req[b].url # HungUrl) ~> (SomeHung /\ ~InFlight(b))
  /\ [][ \A b \in Reqs :
           ( /\ SomeHung
             /\ Starts(b)
             /\ CacheHit(htmlCache, req'[b].url, ~req'[b].skipCache, now) )
           => /\ req'[b].html # NoVal
              /\ req'[b].gets = 0 ]_vars
  /\ [](SomeHung => (ENABLED ClearCache /\ ENABLED CacheStats))

\* a request has been hung for the TTL and through a clear(); since the
\* clear, a call of another url has been answered and has written its
\* entry, a later call has been served from that entry, and stats() has
\* answered
C17_Witness ==
  \E a \in Reqs : \E b \in Reqs :
    /\ Hung(a) /\ req[a].clearSince
    /\ now >= 300000
    /\ req[b].pc = "done" /\ req[b].res.success
    /\ req[b].hit /\ req[b].gets = 0
    /\ req[b].url # HungUrl
    /\ EntriesOf(htmlCache, req[b].url) # {}
    /\ statsResp # NoStats /\ statsResp.size = 1

\* the url's entry is the one a's call wrote: a went to the network and
\* returned, and since then no clear has run and no other call has written
\* the url's entry
WroteEntry(a) ==
  /\ HasReturned(a)
  /\ req[a].gets = 1
  /\ ~req[a].clearSince
  /\ req[a].overwrittenBy = {}

\* C18: a cache-enabled fetchHtml call served from a fresh entry changes no
\* entry of the cache, neither content nor timestamp; so an entry keeps the
\* timestamp of the fetch that wrote it however often it is served, and a
\* cache-enabled call made TTL or more after that fetch is not served from
\* it.
C18_HitLeavesCacheUnchanged ==
  [][ /\ \A r \in Reqs :
           (Starts(r) /\ req'[r].hit) => htmlCache' = htmlCache
      /\ \A a \in Reqs :
           (WroteEntry(a) /\ req'[a].overwrittenBy = {} /\ ~req'[a].clearSince)
           => /\ Cardinality(EntriesOf(htmlCache', req[a].url)) = 1
              /\ \A i \in EntriesOf(htmlCache', req[a].url) :
                   /\ htmlCache'[i].html = req[a].html
                   /\ htmlCache'[i].timestamp = req[a].wroteAt
      /\ \A a \in Reqs : \A b \in Reqs :
           ( /\ WroteEntry(a)
             /\ now - req[a].wroteAt >= 300000
             /\ Starts(b)
             /\ ~req'[b].skipCache
             /\ req'[b].url = req[a].url )
           => /\ ~req'[b].hit
              /\ req'[b].gets = 1 ]_vars

\* an entry has served a call when it was one millisecond short of the
\* TTL; at the TTL it has the timestamp of the fetch that wrote it and is
\* no longer fresh
C18_Witness ==
  \E a \in Reqs : \E b \in Reqs :
    /\ WroteEntry(a)
    /\ a \in req[b].after
    /\ req[b].hit /\ req[b].gets = 0
    /\ req[b].url = req[a].url /\ req[b].html = req[a].html
    /\ now - req[a].wroteAt = 300000
    /\ \E i \in EntriesOf(htmlCache, req[a].url) :
         htmlCache[i].timestamp = req[a].wroteAt
    /\ ~CacheHit(htmlCache, req[a].url, TRUE, now)

\* C19: clear() does not cancel the fetches in flight: they go on as they
\* were, and a call that started before a clear() and whose body arrives
\* after it writes its entry; so stats() can report an entry after a
\* clear() since which no fetch has started, and a later cache-enabled call
\* can be served content that was requested before the clear().
C19_ClearDoesNotCancelFetches ==
  [][ /\ (justCleared' /\ ~justCleared)
           => /\ htmlCache' = <<>>
              /\ \A r \in Reqs :
                   InFlight(r) => req'[r] = [req[r] EXCEPT !.clearSince = TRUE]
      /\ \A r \in Reqs :
           (req[r].clearSince /\ req[r].pc = "text" /\ req'[r].html # NoVal)
           => /\ Cardinality(EntriesOf(htmlCache', req[r].url)) = 1
              /\ \A i \in EntriesOf(htmlCache', req[r].url) :
                   /\ htmlCache'[i].html = req'[r].html
                   /\ htmlCache'[i].timestamp = now ]_vars

\* a call that was in flight across a clear() has written its entry; no
\* fetch has started since, a later cache-enabled call has been served that
\* entry, and stats() reports it
C19_Witness ==
  \E a \in Reqs : \E b \in Reqs :
    /\ HasReturned(a) /\ req[a].gets = 1 /\ req[a].overwrittenBy = {}
    /\ req[a].clearSince
    /\ a \in req[b].after
    /\ CacheEnabled(b) /\ req[b].hit /\ req[b].gets = 0
    /\ ~req[b].clearSince
    /\ req[b].url = req[a].url /\ req[b].html = req[a].html
    /\ \A c \in Reqs : c \notin {a, b} => req[c].pc = "idle"
    /\ statsResp # NoStats
    /\ statsResp.size = 1
    /\ statsResp.urls = <<req[a].url>>

\* C20: in a successful parse-list or parse-detail response, cached is
\* false when skipCache was set, and otherwise true exactly when the cache
\* holds an entry for the url at response time, also when the content was
\* fetched from the network on a miss; so cached = true does not tell that
\* the content was served from the cache.
C20_CachedFlagIsEntryPresence ==
  [][ \A r \in Reqs :
        (req[r].pc = "postText" /\ req'[r].pc = "done" /\ req'[r].res.success)
        => /\ req[r].skipCache => ~req'[r].res.cached
           /\ ~req[r].skipCache =>
                (req'[r].res.cached <=> EntriesOf(htmlCache, req[r].url) # {}) ]_vars

\* a cache-enabled request that missed and fetched its page from the
\* network has been answered with cached = true
C20_Witness ==
  \E r \in Reqs :
    /\ req[r].pc = "done" /\ req[r].res.success
    /\ ~req[r].skipCache
    /\ ~req[r].hit /\ req[r].gets = 1
    /\ req[r].res.cached

====
